---- MODULE Spec2Model ----
(***************************************************************************)
(* The 340B policy sync tool (policySyncTool.execute) and its helpers      *)
(* parseMarkdownTable and rowsToCSV, from                                  *)
(* src/src/mastra/manufacturer-policies.ts.                                *)
(*                                                                         *)
(* Text is a sequence of one-character strings.  An optional value         *)
(* (string | null, field?: T) is a sequence of length at most one:         *)
(* <<>> is null / undefined and <<v>> is the value v.                      *)
(***************************************************************************)
EXTENDS Integers, Sequences, FiniteSets, TLC

(***************************************************************************)
(* Bounds of the model.                                                    *)
(***************************************************************************)
\* how many entries of the registry a run iterates over
NumManufacturers == 2
\* how many invocations of the tool a behaviour holds
MaxRuns == 2
\* length of the generated markdown inputs of parseMarkdownTable
MaxMdLen == 4
\* size (rows + cells + characters) of the row lists given to rowsToCSV
MaxCsvSize == 7

(***************************************************************************)
(* Text helpers: the JavaScript string operations the code uses.           *)
(***************************************************************************)
None == <<>>

Some(v) == <<v>>

\* the characters String.prototype.trim removes and \s matches
Whitespace == {" ", "\t", "\r", "\n"}

RECURSIVE SplitFrom(_, _, _, _)
SplitFrom(s, sep, i, cur) ==
    IF i > Len(s) THEN <<cur>>
    ELSE IF s[i] = sep THEN <<cur>> \o SplitFrom(s, sep, i + 1, <<>>)
    ELSE SplitFrom(s, sep, i + 1, Append(cur, s[i]))

\* s.split(sep) for a one-character separator: "" splits to [""]
Split(s, sep) == SplitFrom(s, sep, 1, <<>>)

RECURSIVE TrimStart(_)
TrimStart(s) ==
    IF s # <<>> /\ Head(s) \in Whitespace THEN TrimStart(Tail(s)) ELSE s

RECURSIVE TrimEnd(_)
TrimEnd(s) ==
    IF s # <<>> /\ s[Len(s)] \in Whitespace
    THEN TrimEnd(SubSeq(s, 1, Len(s) - 1))
    ELSE s

\* s.trim()
Trim(s) == TrimEnd(TrimStart(s))

\* s.includes(c) for a one-character c
Includes(s, c) == \E i \in 1..Len(s) : s[i] = c

RECURSIVE Join(_, _)
\* parts.join(sep): [] joins to ""
Join(parts, sep) ==
    IF parts = <<>> THEN <<>>
    ELSE IF Len(parts) = 1 THEN parts[1]
    ELSE parts[1] \o sep \o Join(Tail(parts), sep)

(***************************************************************************)
(* parseMarkdownTable                                                      *)
(***************************************************************************)
\* the characters of the class [\s\-:] of the separator pattern
SeparatorClass == Whitespace \cup {"-", ":"}

\* line.match(/^\|[\s\-:]+$/): a pipe, then one or more characters of the
\* class, up to the end of the line
IsSeparatorLine(line) ==
    /\ Len(line) >= 2
    /\ line[1] = "|"
    /\ \A i \in 2..Len(line) : line[i] \in SeparatorClass

MapTrim(cells) == [i \in 1..Len(cells) |-> Trim(cells[i])]

NonEmptyText(s) == Len(s) > 0

\* line.split('|').map(cell => cell.trim()).filter(cell => cell.length > 0)
LineCells(line) == SelectSeq(MapTrim(Split(line, "|")), NonEmptyText)

RECURSIVE ParseLines(_)
\* the for loop over the lines
ParseLines(lines) ==
    IF lines = <<>> THEN <<>>
    ELSE LET line == Head(lines)
             rest == ParseLines(Tail(lines))
         IN  IF IsSeparatorLine(line) THEN rest
             ELSE IF Head(line) = "|"
                  THEN IF Len(LineCells(line)) > 0
                       THEN <<LineCells(line)>> \o rest
                       ELSE rest
                  ELSE rest

NonBlankLine(line) == Trim(line) # <<>>

parseMarkdownTable(markdown) ==
    ParseLines(SelectSeq(Split(markdown, "\n"), NonBlankLine))

(***************************************************************************)
(* rowsToCSV                                                               *)
(***************************************************************************)
\* mutant of EscapeQuotes: quotes are not doubled
EscapeQuotesNotDoubled(cell) == cell

RECURSIVE EscapeQuotes(_)
\* cell.replace(/"/g, '""')
EscapeQuotes(cell) ==
    IF cell = <<>> THEN <<>>
    ELSE IF Head(cell) = "\"" THEN <<"\"", "\"">> \o EscapeQuotes(Tail(cell))
    ELSE <<Head(cell)>> \o EscapeQuotes(Tail(cell))

\* mutant of CsvCell: every cell is wrapped in quotes
CsvCellAlwaysQuoted(cell) == <<"\"">> \o EscapeQuotes(cell) \o <<"\"">>

\* the body of the inner map of rowsToCSV
CsvCell(cell) ==
    LET escaped == EscapeQuotes(cell)
    IN  IF Includes(escaped, ",") \/ Includes(escaped, "\"") \/ Includes(escaped, "\n")
        THEN <<"\"">> \o escaped \o <<"\"">>
        ELSE escaped

CsvRow(row) == Join([j \in 1..Len(row) |-> CsvCell(row[j])], <<",">>)

rowsToCSV(rows) == Join([i \in 1..Len(rows) |-> CsvRow(rows[i])], <<"\n">>)

(***************************************************************************)
(* The registry and the external collaborators.                            *)
(***************************************************************************)
\* the keys of the registry, in insertion order
MANUFACTURER_POLICIES ==
    << "abbvie", "alkermes", "amgen", "astrazeneca", "biogen",
       "bristolmyerssquibb", "elililly", "gilead", "glaxosmithkline",
       "janssen", "merck", "novartis", "pfizer", "regeneron", "roche",
       "sanofi", "teva" >>

\* the URL of a registry key
PdfUrl(id) == <<"https://340besp.com/resources/", id, "/policy.pdf">>

\* Object.entries(MANUFACTURER_POLICIES), cut to the model's bound
Entries == SubSeq(MANUFACTURER_POLICIES, 1, NumManufacturers)

Ids == {Entries[i] : i \in 1..Len(Entries)}

\* Object.keys(MANUFACTURER_POLICIES).length
TotalManufacturers == Len(Entries)

\* replies of the language model: no table, a header only, a header and a rule
ReplyNoTable == <<"a">>
ReplyHeader == <<"|", "a", "|">>
ReplyRule == <<"|", "a", "|", "\n", "|", "b", "|">>
LLMReplies == {ReplyNoTable, ReplyHeader, ReplyRule}

\* the error downloadPDF throws on a response that is not ok
HttpError(url) ==
    [message |-> <<"Failed to download PDF from ">> \o url \o <<": ", "Not Found">>]

\* errors the libraries throw (node-fetch, pdf-parse, ai, fs): each carries
\* the library's own message
LibraryError(what) == [message |-> <<what>>]

\* error instanceof Error ? error.message : String(error)
ErrorMessage(error) == error.message

EmptyTableMessage == <<"No rows extracted from markdown table">>

(***************************************************************************)
(* State.                                                                  *)
(***************************************************************************)
VARIABLES
    dirExists,     \* whether the output directory exists
    files,         \* files[id]: the content of <id>_340b_rules.csv, if any
    statusFile,    \* the content of last_run_status.json, if any
    invocations,   \* how many times execute has been called
    run,           \* run[p]: the locals and the position of invocation p
    ghost,         \* ghost[p]: what invocation p observed (history)
    world,         \* world[id]: what the collaborators answer for id, when
                   \* they answer the same in every run
    lastGood,      \* lastGood[id]: the CSV of the last run that completed id
    mdIn, mdOut,   \* parseMarkdownTable: the input and the rows returned
    csvIn, csvOut  \* rowsToCSV: the input and the text returned

fsVars == <<dirExists, files, statusFile>>
syncVars ==
    <<dirExists, files, statusFile, invocations, run, ghost, world, lastGood>>
pureVars == <<mdIn, mdOut, csvIn, csvOut>>
vars == <<dirExists, files, statusFile, invocations, run, ghost, world,
          lastGood, mdIn, mdOut, csvIn, csvOut>>

\* the invocations of execute; a sequential behaviour uses the first only
Procs == {"run1", "run2"}
Sequential == {"run1"}

\* const detail = { id: manufacturerKey, updated: false }
NewDetail(id) == [id |-> id, updated |-> FALSE, rulesCount |-> None, error |-> None]

NoDetail == NewDetail("")

\* the locals of execute before its first statement
FreshRun ==
    [pc |-> "idle", invocation |-> 0, idx |-> 0, detail |-> NoDetail,
     details |-> <<>>, updatedCount |-> 0, unchangedCount |-> 0,
     updatedManufacturers |-> <<>>, csvContent |-> <<>>,
     existingCSV |-> None, result |-> None]

\* what one run observed of one manufacturer: the run, how far the
\* collaborators got ("fetch", "http", "extract", "generate" for the one that
\* threw, "reply" for a reply), the reply, the rows parsed and the CSV made of
\* them, the file as it was at the read, what the read returned ("null",
\* "text") and how the write ended ("ok", "fail"); "none" for no such step;
\* and the steps of the try block that were completed or, for the write,
\* called, in the order in which they were
NoObs ==
    [run |-> 0, ext |-> "none", reply |-> <<>>, rows |-> 0, csv |-> <<>>,
     stored |-> None, read |-> "none", write |-> "none", steps |-> <<>>]

\* history of a run: the observation under way, the observations made, the
\* ids whose file the run has changed, how many times the run has written the
\* run-status file, and the await outside the try block that threw ("mkdir",
\* "status"), if one did
FreshGhost ==
    [cur |-> NoObs, obs |-> [id \in Ids |-> NoObs], changed |-> {},
     statusWrites |-> 0, threwAt |-> "none"]

\* answers of the collaborators for one manufacturer: of fetch ("ok", "fetch"
\* when it throws, "http" when the response is not ok), of pdf-parse, of the
\* model (a reply, or none when it throws), of readFile and of writeFile
Answers(download, extractOk, reply, readFails, writeOk) ==
    [download |-> download, extractOk |-> extractOk, reply |-> reply,
     readFails |-> readFails, writeOk |-> writeOk]

AllGood == Answers("ok", TRUE, Some(ReplyHeader), FALSE, TRUE)

\* the answers that differ in what a run sees
Worlds ==
    {Answers("fetch", TRUE, None, FALSE, TRUE),
     Answers("http", TRUE, None, FALSE, TRUE),
     Answers("ok", FALSE, None, FALSE, TRUE),
     Answers("ok", TRUE, None, FALSE, TRUE)}
    \cup {Answers("ok", TRUE, Some(ReplyNoTable), FALSE, TRUE)}
    \cup {Answers("ok", TRUE, Some(reply), readFails, writeOk) :
            reply \in {ReplyHeader, ReplyRule},
            readFails \in BOOLEAN, writeOk \in BOOLEAN}

InitSync ==
    /\ dirExists = FALSE
    /\ files = [id \in Ids |-> None]
    /\ statusFile = None
    /\ invocations = 0
    /\ run = [p \in Procs |-> FreshRun]
    /\ ghost = [p \in Procs |-> FreshGhost]
    /\ world = [id \in Ids |-> AllGood]
    /\ lastGood = [id \in Ids |-> None]

InitPure ==
    /\ mdIn = <<>>
    /\ mdOut = None
    /\ csvIn = <<>>
    /\ csvOut = None

Init == InitSync /\ InitPure

(***************************************************************************)
(* policySyncTool.execute, one action per await.  Each action runs the     *)
(* synchronous code that follows the await, up to the next one.            *)
(***************************************************************************)
\* the manufacturer the loop is at
Key(r) == Entries[r.idx]

\* details.push(detail)
PushDetail(r) == [r EXCEPT !.details = Append(@, r.detail)]

\* the next iteration of the for loop, or the code after the loop
Advance(r) ==
    IF r.idx + 1 <= Len(Entries)
    THEN [r EXCEPT !.idx = r.idx + 1, !.pc = "download",
                   !.detail = NewDetail(Entries[r.idx + 1]),
                   !.csvContent = <<>>, !.existingCSV = None]
    ELSE [r EXCEPT !.idx = r.idx + 1, !.pc = "status", !.detail = NoDetail,
                   !.csvContent = <<>>, !.existingCSV = None]

\* mutant of Catch: the error is not counted as unchanged
CatchUncounted(r, error) ==
    Advance(PushDetail([r EXCEPT !.detail.error = Some(ErrorMessage(error))]))

\* mutant of Catch: the error leaves the loop and execute throws
CatchRethrows(r, error) ==
    [r EXCEPT !.detail.error = Some(ErrorMessage(error)), !.pc = "threw"]

\* mutant of Catch: the detail of an error is marked updated
CatchMarksUpdated(r, error) ==
    Advance(PushDetail([r EXCEPT !.detail.error = Some(ErrorMessage(error)),
                                 !.detail.updated = TRUE,
                                 !.unchangedCount = @ + 1]))

\* the catch block, then details.push(detail)
Catch(r, error) ==
    Advance(PushDetail([r EXCEPT !.detail.error = Some(ErrorMessage(error)),
                                 !.unchangedCount = @ + 1]))

\* mutant of EmptyTable: the empty table is counted as unchanged
EmptyTableCounted(r) ==
    Advance(PushDetail([r EXCEPT !.detail.error = Some(EmptyTableMessage),
                                 !.unchangedCount = @ + 1]))

\* mutant of EmptyTable: continue without details.push(detail)
EmptyTableNotPushed(r) ==
    Advance([r EXCEPT !.detail.error = Some(EmptyTableMessage)])

\* mutant of EmptyTable: the empty table is written as a CSV
EmptyTableWritten(r) == [r EXCEPT !.pc = "write"]

\* if (rows.length === 0) { detail.error = ...; details.push(detail); continue; }
EmptyTable(r) ==
    Advance(PushDetail([r EXCEPT !.detail.error = Some(EmptyTableMessage)]))

\* mutant of NeedsWrite: a stored snapshot is never overwritten
NeedsWriteOnlyWhenAbsent(existingCSV, csvContent) == existingCSV = None

\* existingCSV === null || existingCSV !== csvContent
NeedsWrite(existingCSV, csvContent) ==
    existingCSV = None \/ existingCSV # Some(csvContent)

\* mutant of Updated: the id is not appended to updatedManufacturers
UpdatedNotListed(r) ==
    Advance(PushDetail([r EXCEPT !.detail.updated = TRUE,
                                 !.updatedCount = @ + 1]))

\* the branch after a writeCSV that resolved, then details.push(detail)
Updated(r) ==
    Advance(PushDetail([r EXCEPT !.detail.updated = TRUE,
                                 !.updatedCount = @ + 1,
                                 !.updatedManufacturers = Append(@, Key(r))]))

\* the else branch, then details.push(detail)
Unchanged(r) ==
    Advance(PushDetail([r EXCEPT !.detail.updated = FALSE,
                                 !.unchangedCount = @ + 1]))

\* mutant of LastRunStatus: the record lists the updates of every run
LastRunStatusOfAllRuns(r) ==
    [last_run |-> r.invocation,
     updates |-> run["run1"].updatedManufacturers
                     \o run["run2"].updatedManufacturers]

\* mutant of LastRunStatus: the ids of the record on disk are kept
LastRunStatusAppended(r) ==
    [last_run |-> r.invocation,
     updates |-> (IF statusFile = None THEN <<>> ELSE statusFile[1].updates)
                     \o r.updatedManufacturers]

\* const lastRunStatus = { last_run: new Date().toISOString(), updates:
\* updatedManufacturers }; the time of a run is the number of the run
LastRunStatus(r) ==
    [last_run |-> r.invocation, updates |-> r.updatedManufacturers]

\* the SyncResult returned
Result(r) ==
    [totalManufacturers |-> TotalManufacturers, updated |-> r.updatedCount,
     unchanged |-> r.unchangedCount, details |-> r.details]

\* history: the run is done with manufacturer id, having observed o
Observed(g, id, o) == [g EXCEPT !.obs[id] = o, !.cur = NoObs]

\* execute is called: await ensureOutputDir(), which throws only when the
\* directory is missing and mkdir fails
Execute(p, mkdirOk) ==
    /\ run[p].pc \in {"idle", "done", "threw"}
    /\ invocations < MaxRuns
    /\ mkdirOk \/ ~dirExists
    /\ invocations' = invocations + 1
    /\ dirExists' = (dirExists \/ mkdirOk)
    /\ run' = [run EXCEPT ![p] =
                 IF mkdirOk
                 THEN Advance([FreshRun EXCEPT !.invocation = invocations + 1])
                 ELSE [FreshRun EXCEPT !.invocation = invocations + 1,
                                       !.pc = "threw"]]
    /\ ghost' = [ghost EXCEPT ![p] =
                   IF mkdirOk THEN FreshGhost
                   ELSE [FreshGhost EXCEPT !.threwAt = "mkdir"]]
    /\ UNCHANGED <<files, statusFile, world, lastGood, pureVars>>

\* await downloadPDF(pdfUrl): fetch throws, the response is not ok, or the
\* bytes are returned
DownloadPDF(p, outcome) ==
    /\ run[p].pc = "download"
    /\ LET r == run[p]
           o == [NoObs EXCEPT !.run = r.invocation, !.ext = outcome,
                              !.steps = IF outcome = "ok" THEN <<"fetch">> ELSE <<>>]
       IN  CASE outcome = "ok" ->
                  /\ run' = [run EXCEPT ![p] = [r EXCEPT !.pc = "extract"]]
                  /\ ghost' = [ghost EXCEPT ![p].cur = o]
             [] outcome = "fetch" ->
                  /\ run' = [run EXCEPT ![p] = Catch(r, LibraryError("fetch failed"))]
                  /\ ghost' = [ghost EXCEPT ![p] = Observed(@, Key(r), o)]
             [] outcome = "http" ->
                  /\ run' = [run EXCEPT ![p] = Catch(r, HttpError(PdfUrl(Key(r))))]
                  /\ ghost' = [ghost EXCEPT ![p] = Observed(@, Key(r), o)]
    /\ UNCHANGED <<fsVars, invocations, world, lastGood, pureVars>>

\* await extractTextFromPDF(pdfBuffer)
ExtractTextFromPDF(p, ok) ==
    /\ run[p].pc = "extract"
    /\ LET r == run[p]
           o == [ghost[p].cur EXCEPT !.ext = "extract"]
       IN  IF ok
           THEN /\ run' = [run EXCEPT ![p] = [r EXCEPT !.pc = "generate"]]
                /\ ghost' = [ghost EXCEPT ![p].cur.steps = Append(@, "extract")]
           ELSE /\ run' = [run EXCEPT ![p] = Catch(r, LibraryError("Invalid PDF"))]
                /\ ghost' = [ghost EXCEPT ![p] = Observed(@, Key(r), o)]
    /\ UNCHANGED <<fsVars, invocations, world, lastGood, pureVars>>

\* await callLLM(policyText) throws
CallLLMThrows(p) ==
    /\ run[p].pc = "generate"
    /\ LET r == run[p]
           o == [ghost[p].cur EXCEPT !.ext = "generate"]
       IN  /\ run' = [run EXCEPT ![p] = Catch(r, LibraryError("generation failed"))]
           /\ ghost' = [ghost EXCEPT ![p] = Observed(@, Key(r), o)]
    /\ UNCHANGED <<fsVars, invocations, world, lastGood, pureVars>>

\* await callLLM(policyText) returns markdownTable; then parseMarkdownTable,
\* the empty-table exit, rulesCount and rowsToCSV, up to the read
CallLLM(p, markdownTable) ==
    /\ run[p].pc = "generate"
    /\ LET r == run[p]
           rows == parseMarkdownTable(markdownTable)
           o == [ghost[p].cur EXCEPT
                   !.ext = "reply", !.reply = markdownTable,
                   !.rows = Len(rows), !.csv = rowsToCSV(rows),
                   !.steps = @ \o (IF Len(rows) = 0
                                   THEN <<"generate", "parse">>
                                   ELSE <<"generate", "parse", "serialize">>)]
       IN  IF Len(rows) = 0
           THEN /\ run' = [run EXCEPT ![p] = EmptyTable(r)]
                /\ ghost' = [ghost EXCEPT ![p] = Observed(@, Key(r), o)]
           ELSE /\ run' = [run EXCEPT ![p] =
                             [r EXCEPT !.detail.rulesCount = Some(Len(rows) - 1),
                                       !.csvContent = rowsToCSV(rows),
                                       !.pc = "read"]]
                /\ ghost' = [ghost EXCEPT ![p].cur = o]
    /\ UNCHANGED <<fsVars, invocations, world, lastGood, pureVars>>

\* readExistingCSV: the content, or null when readFile throws, as it does
\* when there is no file and as it may when there is one
ReadOutcome(file, readFails) == IF file = None \/ readFails THEN None ELSE file

\* await readExistingCSV(csvPath); then the comparison and the else branch
ReadExistingCSV(p, readFails) ==
    /\ run[p].pc = "read"
    /\ readFails => files[Key(run[p])] # None
    /\ LET r == run[p]
           id == Key(r)
           existingCSV == ReadOutcome(files[id], readFails)
           o == [ghost[p].cur EXCEPT
                   !.stored = files[id],
                   !.read = IF existingCSV = None THEN "null" ELSE "text",
                   !.steps = Append(@, "read")]
       IN  IF NeedsWrite(existingCSV, r.csvContent)
           THEN /\ run' = [run EXCEPT ![p] =
                             [r EXCEPT !.existingCSV = existingCSV, !.pc = "write"]]
                /\ ghost' = [ghost EXCEPT ![p].cur = o]
                /\ UNCHANGED lastGood
           ELSE /\ run' = [run EXCEPT ![p] =
                             Unchanged([r EXCEPT !.existingCSV = existingCSV])]
                /\ ghost' = [ghost EXCEPT ![p] = Observed(@, id, o)]
                /\ lastGood' = [lastGood EXCEPT ![id] = Some(r.csvContent)]
    /\ UNCHANGED <<fsVars, invocations, world, pureVars>>

\* await writeCSV(csvPath, csvContent): the file is overwritten, or
\* writeFile throws and the file is as it was
WriteCSV(p, ok) ==
    /\ run[p].pc = "write"
    /\ LET r == run[p]
           id == Key(r)
           o == [ghost[p].cur EXCEPT !.write = IF ok THEN "ok" ELSE "fail",
                                     !.steps = Append(@, "write")]
       IN  IF ok
           THEN /\ files' = [files EXCEPT ![id] = Some(r.csvContent)]
                /\ run' = [run EXCEPT ![p] = Updated(r)]
                /\ ghost' = [ghost EXCEPT ![p] =
                               [Observed(@, id, o) EXCEPT !.changed =
                                   IF files[id] = Some(r.csvContent)
                                   THEN @ ELSE @ \cup {id}]]
                /\ lastGood' = [lastGood EXCEPT ![id] = Some(r.csvContent)]
           ELSE /\ run' = [run EXCEPT ![p] = Catch(r, LibraryError("write failed"))]
                /\ ghost' = [ghost EXCEPT ![p] = Observed(@, id, o)]
                /\ UNCHANGED <<files, lastGood>>
    /\ UNCHANGED <<dirExists, statusFile, invocations, world, pureVars>>

\* mutant of WriteLastRunStatus: a status write that throws is caught and
\* the result is returned
WriteLastRunStatusCaught(p, ok) ==
    /\ run[p].pc = "status"
    /\ statusFile' = IF ok THEN Some(LastRunStatus(run[p])) ELSE statusFile
    /\ run' = [run EXCEPT ![p] =
                 [run[p] EXCEPT !.pc = "done", !.result = Some(Result(run[p]))]]
    /\ ghost' = [ghost EXCEPT ![p].statusWrites = IF ok THEN @ + 1 ELSE @,
                               ![p].threwAt = IF ok THEN @ ELSE "status"]
    /\ UNCHANGED <<dirExists, files, invocations, world, lastGood, pureVars>>

\* await writeLastRunStatus(outputDir, lastRunStatus); then return result.
\* When writeFile throws, execute throws and returns nothing.
WriteLastRunStatus(p, ok) ==
    /\ run[p].pc = "status"
    /\ LET r == run[p]
       IN  IF ok
           THEN /\ statusFile' = Some(LastRunStatus(r))
                /\ run' = [run EXCEPT ![p] =
                             [r EXCEPT !.pc = "done", !.result = Some(Result(r))]]
                /\ ghost' = [ghost EXCEPT ![p].statusWrites = @ + 1]
           ELSE /\ run' = [run EXCEPT ![p] = [r EXCEPT !.pc = "threw"]]
                /\ ghost' = [ghost EXCEPT ![p].threwAt = "status"]
                /\ UNCHANGED statusFile
    /\ UNCHANGED <<dirExists, files, invocations, world, lastGood, pureVars>>

Step(p) ==
    \/ \E mkdirOk \in BOOLEAN : Execute(p, mkdirOk)
    \/ \E outcome \in {"ok", "fetch", "http"} : DownloadPDF(p, outcome)
    \/ \E ok \in BOOLEAN : ExtractTextFromPDF(p, ok)
    \/ CallLLMThrows(p)
    \/ \E markdownTable \in LLMReplies : CallLLM(p, markdownTable)
    \/ \E readFails \in BOOLEAN : ReadExistingCSV(p, readFails)
    \/ \E ok \in BOOLEAN : WriteCSV(p, ok)
    \/ \E ok \in BOOLEAN : WriteLastRunStatus(p, ok)

\* the tool is invoked again and again, one run after the other
Next == \E p \in Sequential : Step(p)

Spec == Init /\ [][Next]_vars

\* the answers for the manufacturer run p is at
AnswersFor(p) ==
    IF run[p].idx \in 1..Len(Entries) THEN world[Key(run[p])] ELSE AllGood

\* the file of the manufacturer run p is at
StoredFor(p) ==
    IF run[p].idx \in 1..Len(Entries) THEN files[Key(run[p])] ELSE None

\* the collaborators answer for each manufacturer as world says, in every
\* run; mkdir and the status write succeed
StableStep(p) ==
    \/ Execute(p, TRUE)
    \/ DownloadPDF(p, AnswersFor(p).download)
    \/ ExtractTextFromPDF(p, AnswersFor(p).extractOk)
    \/ AnswersFor(p).reply = None /\ CallLLMThrows(p)
    \/ \E markdownTable \in LLMReplies :
          /\ AnswersFor(p).reply = Some(markdownTable)
          /\ CallLLM(p, markdownTable)
    \/ ReadExistingCSV(p, /\ AnswersFor(p).readFails
                          /\ StoredFor(p) # None)
    \/ WriteCSV(p, AnswersFor(p).writeOk)
    \/ WriteLastRunStatus(p, TRUE)

InitStable ==
    /\ InitPure
    /\ dirExists = FALSE
    /\ files = [id \in Ids |-> None]
    /\ statusFile = None
    /\ invocations = 0
    /\ run = [p \in Procs |-> FreshRun]
    /\ ghost = [p \in Procs |-> FreshGhost]
    /\ world \in [Ids -> Worlds]
    /\ lastGood = [id \in Ids |-> None]

NextStable == \E p \in Sequential : StableStep(p)

\* runs in succession against an external source and a model that answer the
\* same in every run
SpecStable == InitStable /\ [][NextStable]_vars

\* every awaited promise settles: a run that can take a step takes one
FairSpec == Spec /\ WF_vars(Next)

\* a step of invocation p when the tool is invoked once by each of two
\* callers and nothing throws: the model replies as it likes
ConcurrentStep(p) ==
    \/ run[p].pc = "idle" /\ Execute(p, TRUE)
    \/ DownloadPDF(p, "ok")
    \/ ExtractTextFromPDF(p, TRUE)
    \/ \E markdownTable \in LLMReplies : CallLLM(p, markdownTable)
    \/ ReadExistingCSV(p, FALSE)
    \/ WriteCSV(p, TRUE)
    \/ WriteLastRunStatus(p, TRUE)

NextConcurrent == \E p \in Procs : ConcurrentStep(p)

\* two invocations against the same output directory, their awaits interleaved
SpecConcurrent == Init /\ [][NextConcurrent]_vars

(***************************************************************************)
(* Vocabulary of the properties of a run.                                  *)
(***************************************************************************)
\* the loop of run p is over: it is at the status write or past it
LoopOver(p) ==
    run[p].invocation > 0 /\ run[p].idx = Len(Entries) + 1

\* run p has ended: it returned, or threw at the status write
Ended(p) == LoopOver(p) /\ run[p].pc \in {"done", "threw"}

\* run p is at some await of the loop
InLoop(p) == run[p].pc \in {"download", "extract", "generate", "read", "write"}

\* what run p observed of entry i, once it is done with it
ObsOf(p, i) == ghost[p].obs[Entries[i]]

\* fetch, extraction and generation succeeded and the parse gave a row
PipelineSucceeded(o) == o.ext = "reply" /\ o.rows > 0

\* the CSV the run produced from the reply
ProducedCSV(o) == o.csv

ThrewEarly(o) == o.ext \in {"fetch", "http", "extract", "generate"}

EmptyTableSeen(o) == o.ext = "reply" /\ o.rows = 0

InList(list, x) == \E k \in 1..Len(list) : list[k] = x

Occurrences(list, x) == Cardinality({k \in 1..Len(list) : list[k] = x})

UpdatedDetails(r) == {j \in 1..Len(r.details) : r.details[j].updated}

ErrorDetails(r) == {j \in 1..Len(r.details) : r.details[j].error # None}

\* the details of thrown errors and of unchanged snapshots
UnchangedDetails(r) ==
    {j \in 1..Len(r.details) :
        /\ ~r.details[j].updated
        /\ r.details[j].error # Some(EmptyTableMessage)}

EmptyTableDetails(r) ==
    {j \in 1..Len(r.details) : r.details[j].error = Some(EmptyTableMessage)}

\* a message with at least one character
NonEmptyMessage(m) == \E k \in 1..Len(m) : m[k] # ""

(***************************************************************************)
(* C1 .. C5: the outcome of one manufacturer in a run.                     *)
(***************************************************************************)
\* entry i of run p produced a CSV that differs from the stored one, or
\* there was no stored one
ProducedNew(p, i) ==
    /\ PipelineSucceeded(ObsOf(p, i))
    /\ ObsOf(p, i).stored # Some(ProducedCSV(ObsOf(p, i)))

\* entry i of run p produced the CSV that was stored
ProducedSame(p, i) ==
    /\ PipelineSucceeded(ObsOf(p, i))
    /\ ObsOf(p, i).stored = Some(ProducedCSV(ObsOf(p, i)))

\* the detail, the file, the count and the updates list of an updated entry
MarkedUpdated(p, i) ==
    /\ run[p].details[i].updated
    /\ files[Entries[i]] = Some(ProducedCSV(ObsOf(p, i)))
    /\ run[p].updatedCount = Cardinality(UpdatedDetails(run[p]))
    /\ Occurrences(run[p].updatedManufacturers, Entries[i]) = 1

\* C1 as claimed: after a run, every manufacturer whose fetch, extraction,
\* generation and parse succeeded with a row and whose CSV differs from the
\* stored one (or none was stored) has updated = true, its file holds the new
\* CSV, it is counted once as updated and its id is in the run-status updates.
C1_UpdatedWhenDifferent ==
    \A p \in Sequential : Ended(p) =>
        \A i \in 1..Len(Entries) : ProducedNew(p, i) =>
            /\ MarkedUpdated(p, i)
            /\ statusFile # None
            /\ statusFile[1].last_run = run[p].invocation
            /\ InList(statusFile[1].updates, Entries[i])

\* C1 amended: the same of every such manufacturer whose CSV write did
\* not throw; its id is in the run's updated list, which is the updates list of
\* the run-status file once the status write has succeeded.
C1_UpdatedWhenDifferentAndWritten ==
    \A p \in Sequential : Ended(p) =>
        \A i \in 1..Len(Entries) :
            (ProducedNew(p, i) /\ ObsOf(p, i).write = "ok") =>
                /\ MarkedUpdated(p, i)
                /\ run[p].pc = "done" =>
                      /\ statusFile # None
                      /\ statusFile[1].last_run = run[p].invocation
                      /\ InList(statusFile[1].updates, Entries[i])

\* a run returned after it overwrote a stored CSV with a different one
C1_Witness ==
    \E p \in Sequential :
        /\ Ended(p) /\ run[p].pc = "done"
        /\ \E i \in 1..Len(Entries) :
              /\ ProducedNew(p, i)
              /\ ObsOf(p, i).stored # None
              /\ ObsOf(p, i).write = "ok"

\* C2 as claimed: after a run, every manufacturer whose pipeline succeeded
\* and whose CSV equals the stored one has updated = false, is counted once as
\* unchanged, had no write of its file and is not in the updates list.
C2_UnchangedWhenEqual ==
    \A p \in Sequential : Ended(p) =>
        \A i \in 1..Len(Entries) : ProducedSame(p, i) =>
            /\ ~run[p].details[i].updated
            /\ i \in UnchangedDetails(run[p])
            /\ run[p].unchangedCount = Cardinality(UnchangedDetails(run[p]))
            /\ ObsOf(p, i).write = "none"
            /\ ~InList(run[p].updatedManufacturers, Entries[i])

\* C3: every manufacturer whose pipeline threw at fetch, extraction or
\* generation has a detail with a non-empty error message and updated = false,
\* and is counted once as unchanged and not as updated.
C3_ThrownErrorCountedUnchanged ==
    \A p \in Sequential : \A i \in 1..Len(run[p].details) :
        ThrewEarly(ObsOf(p, i)) =>
            /\ run[p].details[i].id = Entries[i]
            /\ run[p].details[i].error # None
            /\ NonEmptyMessage(run[p].details[i].error[1])
            /\ ~run[p].details[i].updated
            /\ i \in UnchangedDetails(run[p])
            /\ run[p].unchangedCount = Cardinality(UnchangedDetails(run[p]))
            /\ run[p].updatedCount = Cardinality(UpdatedDetails(run[p]))
            /\ ~InList(run[p].updatedManufacturers, Entries[i])

\* a run returned in which one manufacturer failed at each of the stages
C3_Witness ==
    \E p \in Sequential :
        /\ run[p].pc = "done"
        /\ \E i, j \in 1..Len(Entries) :
              /\ ObsOf(p, i).ext = "http"
              /\ ObsOf(p, j).ext \in {"fetch", "extract", "generate"}

\* C4: a manufacturer whose parse gave no row has the literal message and
\* updated = false and is counted neither as updated nor as unchanged; in every
\* result, total - (updated + unchanged) is the number of empty tables.
C4_EmptyTableUncounted ==
    \A p \in Sequential :
        /\ \A i \in 1..Len(run[p].details) : EmptyTableSeen(ObsOf(p, i)) =>
              /\ run[p].details[i].error = Some(EmptyTableMessage)
              /\ ~run[p].details[i].updated
              /\ ~InList(run[p].updatedManufacturers, Entries[i])
              /\ run[p].updatedCount = Cardinality(UpdatedDetails(run[p]))
              /\ run[p].unchangedCount = Cardinality(UnchangedDetails(run[p]))
        /\ run[p].result # None =>
              run[p].result[1].totalManufacturers
                  - (run[p].result[1].updated + run[p].result[1].unchanged)
              = Cardinality({i \in 1..Len(Entries) : EmptyTableSeen(ObsOf(p, i))})

\* a result with an empty table beside a counted manufacturer
C4_Witness ==
    \E p \in Sequential :
        /\ run[p].result # None
        /\ \E i \in 1..Len(Entries) : EmptyTableSeen(ObsOf(p, i))
        /\ run[p].result[1].updated + run[p].result[1].unchanged
              = run[p].result[1].totalManufacturers - 1

\* C5: every result has totalManufacturers = N and N details, one per
\* registry id, whatever the outcomes.
C5_OneDetailPerEntry ==
    \A p \in Sequential : run[p].result # None =>
        /\ run[p].result[1].totalManufacturers = NumManufacturers
        /\ Len(run[p].result[1].details) = NumManufacturers
        /\ \A i \in 1..NumManufacturers :
              run[p].result[1].details[i].id = MANUFACTURER_POLICIES[i]

\* a result of a run in which every entry failed, one of them by an empty table
C5_Witness ==
    \E p \in Sequential :
        /\ run[p].result # None
        /\ ErrorDetails(run[p]) = 1..NumManufacturers
        /\ EmptyTableDetails(run[p]) # {}

(***************************************************************************)
(* C6, C7, C10: runs in succession.                                        *)
(***************************************************************************)
\* C6 as claimed: when the collaborators answer the same in every run, so
\* that every step of every manufacturer has in the second run the outcome it
\* had in the first, the second run returns updated = 0, has no updates, and
\* leaves every CSV file as the first run left it.
C6_SecondRunIdempotent ==
    \A p \in Sequential :
        (run[p].pc = "done" /\ run[p].invocation >= 2) =>
            /\ run[p].result[1].updated = 0
            /\ run[p].updatedManufacturers = <<>>
            /\ statusFile[1].updates = <<>>
            /\ ghost[p].changed = {}

EveryEntryProcessedOnce(p) ==
    /\ LoopOver(p) =>
          /\ Len(run[p].details) = Len(Entries)
          /\ \A i \in 1..Len(Entries) :
                /\ run[p].details[i].id = Entries[i]
                /\ ObsOf(p, i).run = run[p].invocation
    /\ run[p].pc = "threw" => run[p].idx \in {0, Len(Entries) + 1}
    /\ InLoop(p) => Len(run[p].details) = run[p].idx - 1

\* C10: whatever the outcome for a manufacturer, the loop goes on to the
\* later entries: every entry is processed exactly once, and a run that is in
\* the loop reaches the run-status write.
C10_NoFailureHaltsTheBatch ==
    /\ [](\A p \in Sequential : EveryEntryProcessedOnce(p))
    /\ \A p \in Sequential : InLoop(p) ~> (run[p].pc = "status")

\* the run is at the status write after its first entry failed and its last
\* entry was processed all the same
C10_Witness ==
    \E p \in Sequential :
        /\ run[p].pc = "status"
        /\ run[p].details[1].error # None
        /\ Len(run[p].details) = Len(Entries)
        /\ Len(Entries) >= 2

(***************************************************************************)
(* C11: the run-status record.                                             *)
(***************************************************************************)
IsUpdatedDetail(d) == d.updated

\* the ids of the details marked updated, in the order of the details
UpdatedIds(details) ==
    LET marked == SelectSeq(details, IsUpdatedDetail)
    IN  [k \in 1..Len(marked) |-> marked[k].id]

\* the record on disk is the record of run p and of no other run: its updates
\* are the ids run p marked updated, in registry order
StatusIsRecordOf(p) ==
    /\ statusFile # None
    /\ statusFile[1].last_run = run[p].invocation
    /\ statusFile[1].updates = UpdatedIds(run[p].details)
    /\ Len(run[p].details) = Len(Entries)
    /\ \A i \in 1..Len(Entries) : run[p].details[i].id = Entries[i]

\* C11 as claimed: each run, however it ends, has written the run-status
\* record exactly once, after the loop, and the record on disk is the record
\* of that run: the ids it marked updated, in registry order, and no other id.
C11_StatusWrittenOnceByEachRun ==
    \A p \in Sequential :
        /\ (InLoop(p) \/ run[p].pc = "status") => ghost[p].statusWrites = 0
        /\ run[p].pc \in {"done", "threw"} =>
              /\ ghost[p].statusWrites = 1
              /\ StatusIsRecordOf(p)

\* C11 amended: each run that returns a result has written the run-status
\* record exactly once, after every registry entry was processed, and the
\* record on disk is the record of that run: the ids it marked updated, in
\* registry order, and no id of an earlier run; a run that has not returned a
\* result has written no record.
C11_StatusWrittenOnceByReturningRun ==
    \A p \in Sequential :
        /\ run[p].pc # "done" => ghost[p].statusWrites = 0
        /\ run[p].pc = "done" =>
              /\ ghost[p].statusWrites = 1
              /\ StatusIsRecordOf(p)

\* the second run returned having updated the second entry only, while the
\* file of the first entry, written by the first run, is on disk
C11_Witness ==
    \E p \in Sequential :
        /\ run[p].pc = "done"
        /\ run[p].invocation = 2
        /\ Len(Entries) >= 2
        /\ files[Entries[1]] # None
        /\ statusFile = Some([last_run |-> 2, updates |-> <<Entries[2]>>])

(***************************************************************************)
(* C14: the write of a CSV file.                                           *)
(***************************************************************************)
\* the steps of the try block that come before the write, in their order
StepsBeforeWrite ==
    <<"fetch", "extract", "generate", "parse", "serialize", "read">>

\* the observation was made of a manufacturer whose file was written, or was
\* tried to be written: once, after the six steps, of a table with a row
WrittenInOrder(o) ==
    InList(o.steps, "write") =>
        /\ o.steps = Append(StepsBeforeWrite, "write")
        /\ o.ext = "reply"
        /\ o.rows > 0
        /\ o.read # "none"

\* C14: within a run the file of a manufacturer is written at most once,
\* and only after its fetch, extraction, generation, parse with a row,
\* serialization and read of the stored snapshot, in that order; what is given
\* to the write is the whole CSV of the rows parsed from the reply, and after
\* a write that resolved it is the content of the file.
C14_WrittenOnceAfterFullPipeline ==
    \A p \in Sequential :
        /\ WrittenInOrder(ghost[p].cur)
        /\ \A id \in Ids :
              /\ WrittenInOrder(ghost[p].obs[id])
              /\ ghost[p].obs[id].write = "ok" =>
                    files[id] = Some(ghost[p].obs[id].csv)
        /\ run[p].pc = "write" =>
              /\ ghost[p].cur.steps = StepsBeforeWrite
              /\ ghost[p].cur.rows > 0
              /\ ghost[p].cur.csv = run[p].csvContent
              /\ run[p].csvContent =
                    rowsToCSV(parseMarkdownTable(ghost[p].cur.reply))

\* a run has written the file of one manufacturer, after the six steps, and
\* has read the snapshot of another without writing its file
C14_Witness ==
    \E p \in Sequential : \E i, j \in 1..Len(Entries) :
        /\ ObsOf(p, i).steps = Append(StepsBeforeWrite, "write")
        /\ ObsOf(p, i).write = "ok"
        /\ files[Entries[i]] = Some(rowsToCSV(parseMarkdownTable(ObsOf(p, i).reply)))
        /\ ObsOf(p, j).steps = StepsBeforeWrite

(***************************************************************************)
(* C15: two invocations at the same time.                                  *)
(***************************************************************************)
\* runs p and q both read the snapshot of entry i as absent when there was
\* none, so before either wrote it, produced the same CSV, and both wrote it
BothWroteUnseen(p, q, i) ==
    /\ p # q
    /\ ObsOf(p, i).read = "null" /\ ObsOf(p, i).stored = None
    /\ ObsOf(q, i).read = "null" /\ ObsOf(q, i).stored = None
    /\ ObsOf(p, i).write = "ok" /\ ObsOf(q, i).write = "ok"
    /\ ObsOf(p, i).csv = ObsOf(q, i).csv

\* run p reports entry i as updated
ReportsUpdated(p, i) ==
    /\ run[p].details[i].updated
    /\ InList(run[p].updatedManufacturers, Entries[i])

\* the record on disk is the record of one run, the one that wrote it, and
\* lists the updates of that run only
StatusIsOfOneRun ==
    statusFile # None =>
        \E p \in Procs :
            /\ run[p].pc = "done"
            /\ statusFile[1] = LastRunStatus(run[p])

\* C15: when two runs interleave, nothing keeps them apart: two runs
\* that both read a snapshot as absent before either wrote it both write the
\* file and both report updated = true for the same CSV, and the run-status
\* file is the record of the run that wrote it last, with the updates of that
\* run only.
C15_ConcurrentRunsUnsafe ==
    /\ \A p, q \in Procs : \A i \in 1..Len(Entries) :
          BothWroteUnseen(p, q, i) =>
              /\ ReportsUpdated(p, i)
              /\ ReportsUpdated(q, i)
              /\ files[Entries[i]] = Some(ObsOf(p, i).csv)
    /\ StatusIsOfOneRun

\* both runs have returned: both wrote the same CSV to the file of one
\* manufacturer that both had read as absent and both report it updated, and
\* the run-status file, written last by one of them, omits an id whose file
\* the other run changed
C15_Witness ==
    \E p, q \in Procs :
        /\ run[p].pc = "done" /\ run[q].pc = "done"
        /\ \E i \in 1..Len(Entries) :
              /\ BothWroteUnseen(p, q, i)
              /\ ReportsUpdated(p, i) /\ ReportsUpdated(q, i)
        /\ statusFile = Some(LastRunStatus(run[p]))
        /\ \E id \in ghost[q].changed : ~InList(statusFile[1].updates, id)

(***************************************************************************)
(* C16, C17, C18: what is read, what is counted, what is not caught.       *)
(***************************************************************************)
\* the read of the observation returned the stored content, and null only
\* when nothing was stored
ReadWhatWasStored(o) ==
    /\ o.read = "null" => o.stored = None
    /\ o.read = "text" => o.stored # None

\* C16 as claimed: readExistingCSV returns the content of the file
\* whenever the file exists and null only when there is no file, so a run
\* takes a manufacturer for one without a snapshot, and writes without
\* comparing, only when its file does not exist.
C16_AbsentOnlyWhenNoFile ==
    \A p \in Sequential :
        /\ ReadWhatWasStored(ghost[p].cur)
        /\ \A id \in Ids : ReadWhatWasStored(ghost[p].obs[id])
        /\ run[p].pc = "write" => run[p].existingCSV = ghost[p].cur.stored

\* C17: in every result the updated count is the number of details
\* marked updated and the length of the updates list of the run-status file,
\* and no detail is marked updated and has an error; a manufacturer whose CSV
\* write threw has an error, is not marked updated, is counted as unchanged,
\* and its id is not in the updates list.
C17_UpdatedCountConsistent ==
    \A p \in Sequential : run[p].result # None =>
        LET result == run[p].result[1]
        IN  /\ result.updated =
                  Cardinality({j \in 1..Len(result.details) :
                                  result.details[j].updated})
            /\ statusFile # None
            /\ result.updated = Len(statusFile[1].updates)
            /\ \A j \in 1..Len(result.details) :
                  ~(result.details[j].updated /\ result.details[j].error # None)
            /\ \A i \in 1..Len(Entries) : ObsOf(p, i).write = "fail" =>
                  /\ result.details[i].error # None
                  /\ ~result.details[i].updated
                  /\ i \in UnchangedDetails(run[p])
                  /\ result.unchanged = Cardinality(UnchangedDetails(run[p]))
                  /\ ~InList(statusFile[1].updates, Entries[i])

\* a result of a run in which the write threw for one manufacturer and
\* resolved for another
C17_Witness ==
    \E p \in Sequential :
        /\ run[p].result # None
        /\ \E i, j \in 1..Len(Entries) :
              /\ ObsOf(p, i).write = "fail"
              /\ ObsOf(p, j).write = "ok"
              /\ run[p].result[1].updated = 1

\* the creation of the output directory threw in run p
ThrewAtMkdir(p) == ghost[p].threwAt = "mkdir"

\* the run-status write threw in run p
ThrewAtStatusWrite(p) == ghost[p].threwAt = "status"

\* C18: a run whose creation of the output directory threw has processed
\* no manufacturer and written nothing: there is no directory, no CSV file
\* and no run-status file; a run whose run-status write threw returns no
\* result and has written no record, the run-status file, if any, is the
\* record of an earlier run, and the CSV files the run wrote stay written.
C18_FailuresOutsideTryNotCaught ==
    \A p \in Sequential :
        /\ run[p].pc = "threw" <=> (ThrewAtMkdir(p) \/ ThrewAtStatusWrite(p))
        /\ ThrewAtMkdir(p) =>
              /\ run[p].result = None
              /\ run[p].idx = 0
              /\ run[p].details = <<>>
              /\ ghost[p] = [FreshGhost EXCEPT !.threwAt = "mkdir"]
              /\ ~dirExists
              /\ statusFile = None
              /\ \A id \in Ids : files[id] = None
        /\ ThrewAtStatusWrite(p) =>
              /\ run[p].result = None
              /\ LoopOver(p)
              /\ ghost[p].statusWrites = 0
              /\ statusFile # None => statusFile[1].last_run < run[p].invocation
              /\ \A i \in 1..Len(Entries) : ObsOf(p, i).write = "ok" =>
                    /\ run[p].details[i].updated
                    /\ files[Entries[i]] = Some(ObsOf(p, i).csv)

\* the second run threw at the run-status write after it changed a CSV file
\* whose id the run-status file, the record of the first run, does not list
C18_Witness ==
    \E p \in Sequential :
        /\ ThrewAtStatusWrite(p)
        /\ statusFile # None
        /\ \E id \in ghost[p].changed :
              /\ files[id] # None
              /\ ~InList(statusFile[1].updates, id)

(***************************************************************************)
(* parseMarkdownTable on its own: every text of up to MaxMdLen characters  *)
(* of the alphabet, and the table of the specification.                    *)
(***************************************************************************)
MdAlphabet == {"|", "-", ":", " ", "a", "\n"}

TextsUpTo(alphabet, n) == UNION {[1..k -> alphabet] : k \in 0..n}

\* "| a | b |\n|---|---|\n| 1 | 2 |"
ExampleTable ==
    << "|", " ", "a", " ", "|", " ", "b", " ", "|", "\n",
       "|", "-", "-", "-", "|", "-", "-", "-", "|", "\n",
       "|", " ", "1", " ", "|", " ", "2", " ", "|" >>

MarkdownInputs == TextsUpTo(MdAlphabet, MaxMdLen) \cup {ExampleTable}

InitParse ==
    /\ InitSync
    /\ mdIn \in MarkdownInputs
    /\ mdOut = None
    /\ csvIn = <<>>
    /\ csvOut = None

\* const rows = parseMarkdownTable(markdownTable)
ParseMarkdownTable ==
    /\ mdOut = None
    /\ mdOut' = Some(parseMarkdownTable(mdIn))
    /\ UNCHANGED <<mdIn, csvIn, csvOut, syncVars>>

NextParse == ParseMarkdownTable

SpecParse == InitParse /\ [][NextParse]_vars

\* a line of pipes, dashes, colons and whitespace only
SeparatorOnly(line) ==
    \A i \in 1..Len(line) : line[i] \in {"|", "-", ":"} \cup Whitespace

NotSeparatorOnly(line) == ~SeparatorOnly(line)

\* the text without its separator-only lines
WithoutSeparators(markdown) ==
    Join(SelectSeq(Split(markdown, "\n"), NotSeparatorOnly), <<"\n">>)

\* C8 as claimed: a line of pipes, dashes, colons and whitespace only
\* gives no row, so the rows of a text are the rows of the text without these
\* lines, and the table of the specification parses to the rows [a, b], [1, 2].
C8_SeparatorLinesIgnored ==
    mdOut # None =>
        /\ mdOut[1] = parseMarkdownTable(WithoutSeparators(mdIn))
        /\ mdIn = ExampleTable =>
              mdOut[1] = << << <<"a">>, <<"b">> >>, << <<"1">>, <<"2">> >> >>

\* a line that is not blank and starts with a pipe
IsTableLine(line) == NonBlankLine(line) /\ Head(line) = "|"

\* the pipe-delimited columns of a table line, trimmed: what stands before the
\* leading pipe is no column, nor is an empty text after the last pipe
Columns(line) ==
    LET parts == MapTrim(Split(line, "|"))
        last == IF parts[Len(parts)] = <<>> THEN Len(parts) - 1 ELSE Len(parts)
    IN  SubSeq(parts, 2, last)

\* the rows of a text whose table lines each have a non-empty column
RowsOfColumns(markdown) ==
    LET lines == SelectSeq(Split(markdown, "\n"), IsTableLine)
    IN  [k \in 1..Len(lines) |-> Columns(lines[k])]

\* no line of the text is made of pipes, dashes, colons and whitespace only
NoSeparatorOnlyLine(markdown) ==
    \A k \in 1..Len(Split(markdown, "\n")) :
        LET line == Split(markdown, "\n")[k]
        IN  NonBlankLine(line) => NotSeparatorOnly(line)

\* C12 as claimed: of every line that starts with a pipe and is no
\* separator line, parseMarkdownTable returns the trimmed pipe-delimited
\* columns, in order, the empty and the whitespace-only ones included: a line
\* of k columns gives a row of k cells.
C12_InteriorCellsKept ==
    (mdOut # None /\ NoSeparatorOnlyLine(mdIn)) =>
        mdOut[1] = RowsOfColumns(mdIn)

(***************************************************************************)
(* rowsToCSV on its own: every row list of size up to MaxCsvSize, built    *)
(* a row, a cell or a character at a time.                                 *)
(***************************************************************************)
CsvAlphabet == {"a", ",", "\"", "\n"}

RECURSIVE SumLen(_)
SumLen(seqs) == IF seqs = <<>> THEN 0 ELSE Len(Head(seqs)) + SumLen(Tail(seqs))

RECURSIVE CellChars(_)
CellChars(rows) ==
    IF rows = <<>> THEN 0 ELSE SumLen(Head(rows)) + CellChars(Tail(rows))

\* rows + cells + characters
CsvSize(rows) == Len(rows) + SumLen(rows) + CellChars(rows)

CanGrow == csvOut = None /\ CsvSize(csvIn) < MaxCsvSize

\* the input gets one more row, with no cell yet
AddRow ==
    /\ CanGrow
    /\ csvIn' = Append(csvIn, <<>>)
    /\ UNCHANGED <<csvOut, mdIn, mdOut, syncVars>>

\* the last row of the input gets one more cell, empty
AddCell ==
    /\ CanGrow
    /\ csvIn # <<>>
    /\ csvIn' = [csvIn EXCEPT ![Len(csvIn)] = Append(@, <<>>)]
    /\ UNCHANGED <<csvOut, mdIn, mdOut, syncVars>>

\* the last cell of the input gets one more character
AddChar(c) ==
    /\ CanGrow
    /\ csvIn # <<>>
    /\ csvIn[Len(csvIn)] # <<>>
    /\ csvIn' = [csvIn EXCEPT ![Len(csvIn)][Len(csvIn[Len(csvIn)])] = Append(@, c)]
    /\ UNCHANGED <<csvOut, mdIn, mdOut, syncVars>>

\* const csvContent = rowsToCSV(rows)
RowsToCSV ==
    /\ csvOut = None
    /\ csvOut' = Some(rowsToCSV(csvIn))
    /\ UNCHANGED <<csvIn, mdIn, mdOut, syncVars>>

NextCSV ==
    \/ AddRow
    \/ AddCell
    \/ \E c \in CsvAlphabet : AddChar(c)
    \/ RowsToCSV

SpecCSV == Init /\ [][NextCSV]_vars

(***************************************************************************)
(* C13: the text rowsToCSV returns, described by the place of every cell.  *)
(***************************************************************************)
RECURSIVE SumOf(_, _)
\* f[1] + ... + f[n]
SumOf(f, n) == IF n = 0 THEN 0 ELSE f[n] + SumOf(f, n - 1)

\* how many quote characters stand before place k of the cell
QuotesBefore(cell, k) == Cardinality({m \in 1..(k - 1) : cell[m] = "\""})

\* the cell holds a comma, a quote or a newline
NeedsQuoting(cell) ==
    \E k \in 1..Len(cell) : cell[k] \in {",", "\"", "\n"}

\* the length of what is emitted for a cell: a place for every character,
\* one more for every quote, and two for the wrapping quotes
EmittedLen(cell) ==
    Len(cell) + QuotesBefore(cell, Len(cell) + 1)
        + (IF NeedsQuoting(cell) THEN 2 ELSE 0)

\* text is the cell as it is to be emitted: unchanged, or between two quotes
\* with each of its quotes doubled
IsEmissionOf(text, cell) ==
    IF NeedsQuoting(cell)
    THEN /\ Len(text) = EmittedLen(cell)
         /\ text[1] = "\""
         /\ text[Len(text)] = "\""
         /\ \A k \in 1..Len(cell) :
               LET at == 1 + k + QuotesBefore(cell, k)
               IN  /\ text[at] = cell[k]
                   /\ cell[k] = "\"" => text[at + 1] = "\""
    ELSE text = cell

\* the length of a row: its cells and a comma between two cells
RowLen(row) ==
    SumOf([j \in 1..Len(row) |-> EmittedLen(row[j])], Len(row))
        + (IF Len(row) > 0 THEN Len(row) - 1 ELSE 0)

\* where row i starts: after the rows before it and a newline for each
RowStart(rows, i) ==
    1 + SumOf([k \in 1..(i - 1) |-> RowLen(rows[k]) + 1], i - 1)

\* where cell j of row i starts: after the cells before it and a comma for each
CellStart(rows, i, j) ==
    RowStart(rows, i)
        + SumOf([k \in 1..(j - 1) |-> EmittedLen(rows[i][k]) + 1], j - 1)

\* C13: in the text of rowsToCSV every cell stands at its place, with
\* its quotes doubled, wrapped in quotes if and only if it holds a comma, a
\* quote or a newline and unchanged otherwise; one comma stands between two
\* cells of a row and one newline between two rows, and the text ends with the
\* last cell of the last row: no newline follows it.
C13_OutputFormat ==
    csvOut # None =>
        LET text == csvOut[1]
            rows == csvIn
        IN  /\ Len(text) = RowStart(rows, Len(rows) + 1) - 1
                               - (IF Len(rows) > 0 THEN 1 ELSE 0)
            /\ \A i \in 1..Len(rows) :
                  /\ i < Len(rows) =>
                        text[RowStart(rows, i) + RowLen(rows[i])] = "\n"
                  /\ \A j \in 1..Len(rows[i]) :
                        LET from == CellStart(rows, i, j)
                            to == from + EmittedLen(rows[i][j]) - 1
                        IN  /\ IsEmissionOf(SubSeq(text, from, to), rows[i][j])
                            /\ j < Len(rows[i]) => text[to + 1] = ","

\* the text of two rows, one of them of two cells, with a cell that holds a
\* quote and a cell that is emitted unchanged
C13_Witness ==
    /\ csvOut # None
    /\ Len(csvIn) = 2
    /\ \E i \in 1..Len(csvIn) : Len(csvIn[i]) = 2
    /\ \E i \in 1..Len(csvIn) : \E j \in 1..Len(csvIn[i]) :
          Includes(csvIn[i][j], "\"")
    /\ \E i \in 1..Len(csvIn) : \E j \in 1..Len(csvIn[i]) :
          csvIn[i][j] # <<>> /\ ~NeedsQuoting(csvIn[i][j])

RECURSIVE CsvScan(_, _, _, _, _, _)
\* the reader of the round trip: rows end at newlines and cells at commas
\* outside quotes; inside quotes a doubled quote is a quote
CsvScan(text, i, inQuotes, cell, row, rows) ==
    IF i > Len(text) THEN Append(rows, Append(row, cell))
    ELSE IF inQuotes
         THEN IF text[i] = "\""
              THEN IF i + 1 <= Len(text) /\ text[i + 1] = "\""
                   THEN CsvScan(text, i + 2, TRUE, Append(cell, "\""), row, rows)
                   ELSE CsvScan(text, i + 1, FALSE, cell, row, rows)
              ELSE CsvScan(text, i + 1, TRUE, Append(cell, text[i]), row, rows)
         ELSE IF text[i] = "\"" THEN CsvScan(text, i + 1, TRUE, cell, row, rows)
         ELSE IF text[i] = "," THEN CsvScan(text, i + 1, FALSE, <<>>, Append(row, cell), rows)
         ELSE IF text[i] = "\n"
              THEN CsvScan(text, i + 1, FALSE, <<>>, <<>>, Append(rows, Append(row, cell)))
         ELSE CsvScan(text, i + 1, FALSE, Append(cell, text[i]), row, rows)

ReadCSV(text) == CsvScan(text, 1, FALSE, <<>>, <<>>, <<>>)

\* C9 as claimed: reading the text of any row list gives the row list back.
C9_RoundTripOfAnyRows ==
    csvOut # None => ReadCSV(csvOut[1]) = csvIn

\* at least one row, and at least one cell in every row
HasRowsAndCells(rows) ==
    /\ rows # <<>>
    /\ \A i \in 1..Len(rows) : rows[i] # <<>>

\* C9 amended: reading the text of a row list that has at least one row,
\* and at least one cell in each row, gives the row list back, commas, quotes
\* and newlines in the cells included.
C9_RoundTripOfRowsWithCells ==
    (csvOut # None /\ HasRowsAndCells(csvIn)) => ReadCSV(csvOut[1]) = csvIn

\* the text of a cell that holds a comma, a quote and a newline was read back
C9_Witness ==
    /\ csvOut # None
    /\ HasRowsAndCells(csvIn)
    /\ \E i \in 1..Len(csvIn) : \E j \in 1..Len(csvIn[i]) :
          /\ Includes(csvIn[i][j], ",")
          /\ Includes(csvIn[i][j], "\"")
          /\ Includes(csvIn[i][j], "\n")
    /\ ReadCSV(csvOut[1]) = csvIn

====
